---------------------------- MODULE Spec2Model ----------------------------
(***************************************************************************)
(* Model of the Mount Barker development-application scraper               *)
(* (src/scraper.ts, src/scraper.js).                                       *)
(*                                                                         *)
(* Strings are sequences of one-character strings, so that toLowerCase,    *)
(* trim, startsWith, the whitespace-removing replace and the date parse    *)
(* and format are computed character by character.                         *)
(*                                                                         *)
(* Numbers are integers.  Every coordinate of the model is chosen so that  *)
(* the divisions of the source (width / 5, width / 2, height / 2) are      *)
(* exact: widths are multiples of 10 and heights are even, hence \div      *)
(* equals the floating point division there.  Number.MAX_VALUE is the      *)
(* model's MAX_VALUE and a floating point overflow gives Infinity.         *)
(***************************************************************************)
EXTENDS Integers, Sequences, FiniteSets, TLC

VARIABLES
    pc,                        \* which call has been made, or where parsePdf is
    element1, element2,        \* arguments of a geometry call
    distance, overlap,         \* calculateDistance / isOverlap of that call
    elements,                  \* the elements of the page (parsePdf, findClosestElement)
    label, dir,                \* arguments text and direction of a resolver call
    closest,                   \* result of findClosestElement
    pdf, index,                \* the pages of the document and parsePdf's loop index
    applicationNumberElement, descriptionElement,
    receivedDateElement, addressElement,   \* the locals of parsePdf's loop body
    developmentApplications,   \* the array parsePdf builds
    thrown,                    \* whether parsePdf raised (its promise rejects)
    returned,                  \* what parsePdf handed to its caller
    program,                   \* which of the programs runs: "legacy", "anchor" or "js"
    pdfPages,                  \* pdf.formImage.Pages, the argument of convertPdfToText
    smallestYValueForPage, myPages, rows,  \* the arrays convertPdfToText builds
    scanned, isAddress, currentApplication,   \* the row scanner: rows consumed and its locals
    database, inserted,        \* the rows of table [data] and the insertRow calls made
    pdfUrls, randomPdfUrls, selectedPdfUrls,  \* the URL arrays of main
    documentOf, processed      \* the PDF behind each URL and the documents main has handled

geomVars == <<element1, element2, distance, overlap>>

findVars == <<label, closest>>

pageVars == <<pdf, index, applicationNumberElement, descriptionElement, receivedDateElement,
              addressElement, developmentApplications, thrown, returned>>

textVars == <<pdfPages, smallestYValueForPage, myPages>>

scanVars == <<scanned, isAddress, currentApplication>>

storeVars == <<database, inserted>>

mainVars == <<pdfUrls, randomPdfUrls, selectedPdfUrls>>

\* The variables of the anchor-based resolver and the ones of the rest of the programs.
anchorVars == <<elements, dir, geomVars, findVars>>

runVars == <<documentOf, processed>>

restVars == <<program, rows, textVars, scanVars, storeVars, mainVars, runVars>>

vars == <<pc, anchorVars, pageVars, restVars>>

---------------------------------------------------------------------------
(* Strings *)

UpperCase == <<"A","B","C","D","E","F","G","H","I","J","K","L","M",
               "N","O","P","Q","R","S","T","U","V","W","X","Y","Z">>

LowerCase == <<"a","b","c","d","e","f","g","h","i","j","k","l","m",
               "n","o","p","q","r","s","t","u","v","w","x","y","z">>

WhiteSpace == {" ", "\t", "\n"}

lowerChar(c) ==
    IF \E i \in 1..Len(UpperCase) : UpperCase[i] = c
    THEN LowerCase[CHOOSE i \in 1..Len(UpperCase) : UpperCase[i] = c]
    ELSE c

\* String.prototype.toLowerCase
toLowerCase(s) == [i \in 1..Len(s) |-> lowerChar(s[i])]

\* String.prototype.startsWith
startsWith(s, prefix) ==
    /\ Len(prefix) <= Len(s)
    /\ SubSeq(s, 1, Len(prefix)) = prefix

\* String.prototype.trim
trim(s) ==
    LET keep == {i \in 1..Len(s) : s[i] \notin WhiteSpace}
    IN  IF keep = {} THEN <<>>
        ELSE SubSeq(s, CHOOSE i \in keep : \A j \in keep : i <= j,
                       CHOOSE i \in keep : \A j \in keep : j <= i)

\* String.prototype.replace(/\s/g, "")
removeWhiteSpace(s) == SelectSeq(s, LAMBDA c : c \notin WhiteSpace)

---------------------------------------------------------------------------
(* Numbers *)

\* Number.MAX_VALUE, the value calculateDistance returns for "not adjacent".
MAX_VALUE == 1000000

\* The square root of MAX_VALUE: a number beyond it has a square beyond MAX_VALUE.
SQRT_MAX_VALUE == 1000

\* What a floating point result beyond Number.MAX_VALUE becomes.
Infinity == MAX_VALUE + 1

\* a * a in floating point
square(a) ==
    IF a > SQRT_MAX_VALUE \/ a < 0 - SQRT_MAX_VALUE THEN Infinity ELSE a * a

\* a + b in floating point, for a, b >= 0
plus(a, b) ==
    IF a = Infinity \/ b = Infinity THEN Infinity
    ELSE IF a + b > MAX_VALUE THEN Infinity ELSE a + b

\* Math.min
min(a, b) == IF a < b THEN a ELSE b

---------------------------------------------------------------------------
(* Proximity geometry *)

\* enum Direction { Right, Down }; Other is any value outside the enum.
Right == 0
Down == 1
Other == 2

Directions == {Right, Down, Other}

Element(t, x, y, w, h) == [text |-> t, x |-> x, y |-> y, width |-> w, height |-> h]

calculateDistanceNoFactor(e1, e2, d) ==
    IF d = Right THEN
        LET point1 == [x |-> e1.x + e1.width, y |-> e1.y + e1.height \div 2]
            point2 == [x |-> e2.x, y |-> e2.y + e2.height \div 2]
        IN  plus(square(point2.x - point1.x), square(point2.y - point1.y))
    ELSE IF d = Down THEN
        LET point1 == [x |-> e1.x + e1.width \div 2, y |-> e1.y + e1.height]
            point2 == [x |-> min(e2.x + e1.width \div 2, e2.x + e2.width), y |-> e2.y]
        IN  plus(square(point2.x - point1.x), square(point2.y - point1.y))
    ELSE MAX_VALUE

calculateDistanceNoMin(e1, e2, d) ==
    IF d = Right THEN
        LET point1 == [x |-> e1.x + e1.width, y |-> e1.y + e1.height \div 2]
            point2 == [x |-> e2.x, y |-> e2.y + e2.height \div 2]
        IN  IF point2.x < point1.x - e1.width \div 5
            THEN MAX_VALUE
            ELSE plus(square(point2.x - point1.x), square(point2.y - point1.y))
    ELSE IF d = Down THEN
        LET point1 == [x |-> e1.x + e1.width \div 2, y |-> e1.y + e1.height]
            point2 == [x |-> e2.x + e1.width \div 2, y |-> e2.y]
        IN  IF point2.y < point1.y - e1.height \div 2
            THEN MAX_VALUE
            ELSE plus(square(point2.x - point1.x), square(point2.y - point1.y))
    ELSE MAX_VALUE

calculateDistance(e1, e2, d) ==
    IF d = Right THEN
        LET point1 == [x |-> e1.x + e1.width, y |-> e1.y + e1.height \div 2]
            point2 == [x |-> e2.x, y |-> e2.y + e2.height \div 2]
        IN  IF point2.x < point1.x - e1.width \div 5
            THEN MAX_VALUE
            ELSE plus(square(point2.x - point1.x), square(point2.y - point1.y))
    ELSE IF d = Down THEN
        LET point1 == [x |-> e1.x + e1.width \div 2, y |-> e1.y + e1.height]
            point2 == [x |-> min(e2.x + e1.width \div 2, e2.x + e2.width), y |-> e2.y]
        IN  IF point2.y < point1.y - e1.height \div 2
            THEN MAX_VALUE
            ELSE plus(square(point2.x - point1.x), square(point2.y - point1.y))
    ELSE MAX_VALUE

isOverlapAnyDirection(e1, e2, d) ==
    IF d = Right THEN
        e2.y < e1.y + e1.height /\ e2.y + e2.height > e1.y
    ELSE e2.x < e1.x + e1.width /\ e2.x + e2.width > e1.x

isOverlap(e1, e2, d) ==
    IF d = Right THEN
        e2.y < e1.y + e1.height /\ e2.y + e2.height > e1.y
    ELSE IF d = Down THEN
        e2.x < e1.x + e1.width /\ e2.x + e2.width > e1.x
    ELSE FALSE

---------------------------------------------------------------------------
(* Nearest-neighbour resolver *)

\* The value undefined, and the text of the placeholder closestElement.
Undefined == [undefined |-> TRUE]

UndefinedText == <<"undefined">>

\* { text: undefined, x: Number.MAX_VALUE, y: Number.MAX_VALUE, width: 0, height: 0 }
Placeholder == Element(UndefinedText, MAX_VALUE, MAX_VALUE, 0, 0)

\* elements.find(element => element.text.toLowerCase().startsWith(text))
matchingIndexes(es, t) ==
    {i \in 1..Len(es) : startsWith(toLowerCase(es[i].text), toLowerCase(t))}

firstIndex(S) == CHOOSE i \in S : \A j \in S : i <= j

RECURSIVE scanNoOverlapGate(_, _, _, _, _)
scanNoOverlapGate(es, i, m, d, c) ==
    IF i > Len(es) THEN c
    ELSE scanNoOverlapGate(es, i + 1, m, d,
             IF calculateDistance(m, es[i], d) < calculateDistance(m, c, d)
             THEN es[i] ELSE c)

RECURSIVE scanFiniteOnly(_, _, _, _, _)
scanFiniteOnly(es, i, m, d, c) ==
    IF i > Len(es) THEN c
    ELSE scanFiniteOnly(es, i + 1, m, d,
             IF /\ isOverlap(m, es[i], d)
                /\ calculateDistance(m, es[i], d) < MAX_VALUE
                /\ calculateDistance(m, es[i], d) < calculateDistance(m, c, d)
             THEN es[i] ELSE c)

RECURSIVE scanLastWins(_, _, _, _, _)
scanLastWins(es, i, m, d, c) ==
    IF i > Len(es) THEN c
    ELSE scanLastWins(es, i + 1, m, d,
             IF /\ isOverlap(m, es[i], d)
                /\ calculateDistance(m, es[i], d) <= calculateDistance(m, c, d)
             THEN es[i] ELSE c)

\* The for loop of findClosestElement from element i on: m is matchingElement,
\* c the closestElement so far.
RECURSIVE scan(_, _, _, _, _)
scan(es, i, m, d, c) ==
    IF i > Len(es) THEN c
    ELSE scan(es, i + 1, m, d,
             IF /\ isOverlap(m, es[i], d)
                /\ calculateDistance(m, es[i], d) < calculateDistance(m, c, d)
             THEN es[i] ELSE c)

findClosestElement(es, t, d) ==
    IF matchingIndexes(es, t) = {} THEN Undefined
    ELSE LET matchingElement == es[firstIndex(matchingIndexes(es, t))]
             closestElement == scan(es, 1, matchingElement, d, Placeholder)
         IN  IF closestElement.text = UndefinedText THEN Undefined ELSE closestElement

---------------------------------------------------------------------------
(* Dates: moment(text, "D/MM/YYYY", true), isValid and format("YYYY-MM-DD") *)

Digits == <<"0", "1", "2", "3", "4", "5", "6", "7", "8", "9">>

isDigit(c) == \E i \in 1..Len(Digits) : Digits[i] = c

digitValue(c) == (CHOOSE i \in 1..Len(Digits) : Digits[i] = c) - 1

allDigits(s) == \A i \in 1..Len(s) : isDigit(s[i])

RECURSIVE toNumber(_)
toNumber(s) ==
    IF s = <<>> THEN 0
    ELSE 10 * toNumber(SubSeq(s, 1, Len(s) - 1)) + digitValue(s[Len(s)])

isLeapYear(year) == (year % 4 = 0 /\ year % 100 # 0) \/ year % 400 = 0

daysInMonth(year, month) ==
    IF month = 2 THEN (IF isLeapYear(year) THEN 29 ELSE 28)
    ELSE IF month \in {4, 6, 9, 11} THEN 30 ELSE 31

\* moment.invalid()
InvalidDate == [valid |-> FALSE]

isValid(date) == date.valid

momentStrictAnyDay(s) ==
    LET n == Len(s)
        dayLength == n - 8
    IN  IF n \notin {9, 10} THEN InvalidDate
        ELSE LET D == SubSeq(s, 1, dayLength)
                 MM == SubSeq(s, dayLength + 2, dayLength + 3)
                 YYYY == SubSeq(s, dayLength + 5, dayLength + 8)
             IN  IF /\ allDigits(D) /\ allDigits(MM) /\ allDigits(YYYY)
                    /\ s[dayLength + 1] = "/" /\ s[dayLength + 4] = "/"
                    /\ toNumber(MM) \in 1..12
                    /\ toNumber(D) \in 1..31
                 THEN [valid |-> TRUE, year |-> toNumber(YYYY),
                       month |-> toNumber(MM), day |-> toNumber(D)]
                 ELSE InvalidDate

\* The strict parse: the whole text is one or two digits of the day, "/", two
\* digits of the month, "/", four digits of the year, and the date exists.
momentStrict(s) ==
    LET n == Len(s)
        dayLength == n - 8
    IN  IF n \notin {9, 10} THEN InvalidDate
        ELSE LET D == SubSeq(s, 1, dayLength)
                 MM == SubSeq(s, dayLength + 2, dayLength + 3)
                 YYYY == SubSeq(s, dayLength + 5, dayLength + 8)
             IN  IF /\ allDigits(D) /\ allDigits(MM) /\ allDigits(YYYY)
                    /\ s[dayLength + 1] = "/" /\ s[dayLength + 4] = "/"
                    /\ toNumber(MM) \in 1..12
                    /\ toNumber(D) \in 1..daysInMonth(toNumber(YYYY), toNumber(MM))
                 THEN [valid |-> TRUE, year |-> toNumber(YYYY),
                       month |-> toNumber(MM), day |-> toNumber(D)]
                 ELSE InvalidDate

\* The decimal digits of n, padded with zeros to the given width.
RECURSIVE padded(_, _)
padded(n, width) ==
    IF width = 0 THEN <<>>
    ELSE Append(padded(n \div 10, width - 1), Digits[(n % 10) + 1])

\* format("YYYY-MM-DD")
format(date) ==
    padded(date.year, 4) \o <<"-">> \o padded(date.month, 2) \o <<"-">> \o padded(date.day, 2)

---------------------------------------------------------------------------
(* parsePdf *)

DevAppNoLabel == <<"D", "e", "v", " ", "A", "p", "p", " ", "N", "o">>

ReceivedLabel == <<"A", "p", "p", "l", "i", "c", "a", "t", "i", "o", "n", " ", "R", "e", "c", "'", "d", " ", "C", "o", "u", "n", "c", "i", "l">>

PropertyDetailLabel == <<"P", "r", "o", "p", "e", "r", "t", "y", " ", "D", "e", "t", "a", "i", "l">>

PropertyDetailPrefix == <<"p", "r", "o", "p", "e", "r", "t", "y", " ", "d", "e", "t", "a", "i", "l">>

NoDescriptionProvided == <<"N", "o", " ", "d", "e", "s", "c", "r", "i", "p", "t", "i", "o", "n", " ", "p", "r", "o", "v", "i", "d", "e", "d">>

CommentUrl == "mailto:council@mountbarker.sa.gov.au"

\* The url parsePdf is called with, and the day moment() gives.
Url == "url"

Today == [valid |-> TRUE, year |-> 2018, month |-> 8, day |-> 8]

\* The value null.
Null == [null |-> TRUE]

skipPageWithoutLabelTest(app, address) ==
    \/ app = Undefined
    \/ trim(app.text) = <<>>
    \/ address = Undefined
    \/ trim(address.text) = <<>>

\* The condition of the continue: the details of the page are not valid.
skipPage(app, address) ==
    \/ app = Undefined
    \/ trim(app.text) = <<>>
    \/ address = Undefined
    \/ trim(address.text) = <<>>
    \/ startsWith(toLowerCase(trim(address.text)), PropertyDetailPrefix)

\* descriptionElement.text is read whenever descriptionElement !== null: of
\* undefined that read raises a TypeError.
raisesTypeError(description) == description # Null /\ description = Undefined

descriptionOf(description) ==
    IF description # Null /\ trim(description.text) # <<>>
    THEN trim(description.text)
    ELSE NoDescriptionProvided

receivedDateOf(received) ==
    IF received # Undefined THEN momentStrict(trim(received.text)) ELSE InvalidDate

developmentApplication(app, address, description, received) ==
    [ applicationNumber |-> removeWhiteSpace(trim(app.text)),
      address |-> trim(address.text),
      description |-> descriptionOf(description),
      informationUrl |-> Url,
      commentUrl |-> CommentUrl,
      scrapeDate |-> format(Today),
      receivedDate |-> IF isValid(receivedDateOf(received))
                       THEN format(receivedDateOf(received)) ELSE <<>> ]

\* One iteration of the loop over the pages.
ParsePage ==
    /\ pc = "loop"
    /\ index < Len(pdf)
    /\ LET es == pdf[index + 1]
           app == findClosestElement(es, DevAppNoLabel, Right)
           description == IF app # Undefined
                          THEN findClosestElement(es, app.text, Right)
                          ELSE Undefined
           received == findClosestElement(es, ReceivedLabel, Right)
           address == findClosestElement(es, PropertyDetailLabel, Down)
       IN  /\ elements' = es
           /\ applicationNumberElement' = app
           /\ descriptionElement' = description
           /\ receivedDateElement' = received
           /\ addressElement' = address
           /\ IF skipPage(app, address)
              THEN /\ index' = index + 1
                   /\ UNCHANGED <<pc, developmentApplications, thrown, returned>>
              ELSE IF raisesTypeError(description)
              THEN /\ thrown' = TRUE
                   /\ pc' = "rejected"
                   /\ returned' = "TypeError"
                   /\ UNCHANGED <<index, developmentApplications>>
              ELSE /\ developmentApplications' =
                          Append(developmentApplications,
                                 developmentApplication(app, address, description, received))
                   /\ index' = index + 1
                   /\ UNCHANGED <<pc, thrown, returned>>
    /\ UNCHANGED <<pdf, dir, geomVars, findVars, restVars>>

\* return developmentApplications
Return ==
    /\ pc = "loop"
    /\ index = Len(pdf)
    /\ pc' = "returned"
    /\ returned' = developmentApplications
    /\ UNCHANGED <<elements, dir, geomVars, findVars, pdf, index, applicationNumberElement,
                   descriptionElement, receivedDateElement, addressElement,
                   developmentApplications, thrown, restVars>>

---------------------------------------------------------------------------
(* convertPdfToText (the legacy program): rows of texts from positioned texts *)

abs(a) == IF a < 0 THEN 0 - a ELSE a

\* A text of a page as pdf2json gives it: a position and its runs R, each
\* with the URI-encoded characters T.
Text(x, y, R) == [x |-> x, y |-> y, R |-> R]

\* The character of an escape sequence %hh, for the code points the model uses.
charOfEscape(h1, h2) ==
    CASE h1 = "2" /\ h2 = "0" -> " "
      [] h1 = "2" /\ h2 = "F" -> "/"
      [] h1 = "3" /\ h2 = "A" -> ":"
      [] h1 = "4" /\ h2 = "1" -> "A"
      [] OTHER -> "?"

\* decodeURIComponent, on the encodings pdf2json produces (every % begins an
\* escape sequence of two hexadecimal digits).
RECURSIVE decodeURIComponent(_)
decodeURIComponent(s) ==
    IF s = <<>> THEN <<>>
    ELSE IF s[1] = "%" /\ Len(s) >= 3
    THEN <<charOfEscape(s[2], s[3])>> \o decodeURIComponent(SubSeq(s, 4, Len(s)))
    ELSE <<s[1]>> \o decodeURIComponent(Tail(s))

xComparer(a, b) == IF a.x > b.x THEN 1 ELSE IF a.x < b.x THEN 0 - 1 ELSE 0

yComparer(a, b) == IF a.y > b.y THEN 1 ELSE IF a.y < b.y THEN 0 - 1 ELSE 0

\* Array.prototype.sort with the comparer of a co-ordinate ("x" or "y"): the
\* elements in ascending order, equal ones in their order of before.
sort(s, coordinate) ==
    LET comparer(a, b) == IF coordinate = "x" THEN xComparer(a, b) ELSE yComparer(a, b)
        before(j, i) == comparer(s[j], s[i]) < 0 \/ (comparer(s[j], s[i]) = 0 /\ j < i)
        position(i) == Cardinality({j \in 1..Len(s) : before(j, i)}) + 1
    IN  [k \in 1..Len(s) |-> s[CHOOSE i \in 1..Len(s) : position(i) = k]]

smallestYValueAnyX(page) ==
    LET texts == page.Texts
        pairs == {p \in (1..Len(texts)) \X (1..Len(texts)) : p[1] # p[2]}
        distances == {abs(texts[p[2]].y - texts[p[1]].y) : p \in pairs}
    IN  IF distances = {} THEN 0
        ELSE CHOOSE d \in distances : \A e \in distances : d <= e

\* The first loop over the pages: the smallest Y distance of two different
\* texts with equal X co-ordinates, 0 when there are none.
smallestYValue(page) ==
    LET texts == page.Texts
        pairs == {p \in (1..Len(texts)) \X (1..Len(texts)) :
                      p[1] # p[2] /\ texts[p[1]].x = texts[p[2]].x}
        distances == {abs(texts[p[2]].y - texts[p[1]].y) : p \in pairs}
    IN  IF distances = {} THEN 0
        ELSE CHOOSE d \in distances : \A e \in distances : d <= e

\* The entries a text pushes onto a row.
entriesOf(text) ==
    [k \in 1..Len(text.R) |-> [text |-> decodeURIComponent(text.R[k].T), x |-> text.x]]

inRangeInclusive(row, text, maximumYdifference) ==
    row.y - maximumYdifference <= text.y /\ text.y <= row.y + maximumYdifference

inRange(row, text, maximumYdifference) ==
    row.y - maximumYdifference < text.y /\ text.y < row.y + maximumYdifference

\* One text: it is added to every row it is in the range of (the loop over
\* the rows runs from the last row to the first and does not stop at a row
\* found), or to a new row when there is none.
addToRows(rs, text, maximumYdifference) ==
    LET foundRow == \E i \in 1..Len(rs) : inRange(rs[i], text, maximumYdifference)
    IN  IF foundRow
        THEN [i \in 1..Len(rs) |->
                 IF inRange(rs[i], text, maximumYdifference)
                 THEN [rs[i] EXCEPT !.data = @ \o entriesOf(text)]
                 ELSE rs[i]]
        ELSE Append(rs, [y |-> text.y, data |-> entriesOf(text)])

RECURSIVE buildRows(_, _, _, _)
buildRows(texts, textIndex, maximumYdifference, rs) ==
    IF textIndex > Len(texts) THEN rs
    ELSE buildRows(texts, textIndex + 1, maximumYdifference,
                   addToRows(rs, texts[textIndex], maximumYdifference))

rowsOfPageUnsorted(page, maximumYdifference) ==
    buildRows(page.Texts, 1, maximumYdifference, <<>>)

\* The rows of a page, each sorted by X, sorted by Y.
rowsOfPage(page, maximumYdifference) ==
    LET built == buildRows(page.Texts, 1, maximumYdifference, <<>>)
        sortedData == [i \in 1..Len(built) |->
                          [built[i] EXCEPT !.data = sort(@, "x")]]
    IN  sort(sortedData, "y")

\* Flatten pages into rows, keeping the text of each entry.
RECURSIVE flatten(_, _)
flatten(ps, pageIndex) ==
    IF pageIndex > Len(ps) THEN <<>>
    ELSE [rowIndex \in 1..Len(ps[pageIndex]) |->
             [k \in 1..Len(ps[pageIndex][rowIndex].data) |->
                 ps[pageIndex][rowIndex].data[k].text]]
         \o flatten(ps, pageIndex + 1)

ConvertPdfToText ==
    /\ pc = "convert"
    /\ smallestYValueForPage' = [i \in 1..Len(pdfPages) |-> smallestYValue(pdfPages[i])]
    /\ myPages' = [i \in 1..Len(pdfPages) |-> rowsOfPage(pdfPages[i], smallestYValue(pdfPages[i]))]
    /\ rows' = flatten(myPages', 1)
    /\ pc' = "converted"
    /\ UNCHANGED <<anchorVars, pageVars, program, pdfPages, scanVars, storeVars, mainVars, runVars>>

---------------------------------------------------------------------------
(* The row scanner of the legacy program: applications from the rows of texts *)

DevAppNoPrefix == <<"d", "e", "v", " ", "a", "p", "p", " ", "n", "o">>
FeesPrefix == <<"f", "e", "e", "s">>
ReceivedPrefix == <<"a", "p", "p", "l", "i", "c", "a", "t", "i", "o", "n", " ", "r", "e", "c", "'", "d", " ", "c", "o", "u", "n", "c", "i", "l">>

\* The texts that end an address: the start of the details of the allotment.
AllotmentPrefixes ==
    { <<"L", "O", "T", ":">>, <<"A", "L", "T", ":">>, <<"A", ":">>,
      <<"U", ":">>, <<"P", "C", "E", ":">>, <<"S", "E", "C", ":">> }

\* let text = (row.length === 0) ? "" : row[0].trim().toLowerCase()
firstText(row) == IF Len(row) = 0 THEN <<>> ELSE toLowerCase(trim(row[1]))

startsApplicationExactText(row) == firstText(row) = DevAppNoPrefix /\ Len(row) >= 3

\* The row is the start of an application.
startsApplication(row) == startsWith(firstText(row), DevAppNoPrefix) /\ Len(row) >= 3

newApplication(row) ==
    [ applicationNumber |-> removeWhiteSpace(trim(row[2])),
      address |-> <<>>,
      reason |-> trim(row[3]),
      informationUrl |-> Url,
      commentUrl |-> CommentUrl,
      scrapeDate |-> format(Today),
      receivedDate |-> <<>> ]

addressWithoutSpace(address, text) == address \o text

\* developmentApplication.address += ((address === "") ? "" : " ") + text
addressWith(address, text) == address \o (IF address = <<>> THEN <<>> ELSE <<" ">>) \o text

receivedDateIndexesFirstCell(row) ==
    {i \in 1..Len(row) :
        /\ i = 1
        /\ startsWith(toLowerCase(trim(row[i])), ReceivedPrefix)
        /\ i + 1 <= Len(row)
        /\ isValid(momentStrict(trim(row[i + 1])))}

\* The indexes (from 1) of the cells that start with "application rec'd council"
\* and are followed by a cell with a valid date.
receivedDateIndexes(row) ==
    {i \in 1..Len(row) :
        /\ startsWith(toLowerCase(trim(row[i])), ReceivedPrefix)
        /\ i + 1 <= Len(row)
        /\ isValid(momentStrict(trim(row[i + 1])))}

receivedDateOverwritten(receivedDate, row) ==
    IF receivedDateIndexes(row) # {}
    THEN format(momentStrict(trim(row[firstIndex(receivedDateIndexes(row)) + 1])))
    ELSE receivedDate

\* The received date after the row: the date after the first such cell, when
\* the application has none yet.
receivedDateWith(receivedDate, row) ==
    IF receivedDate = <<>> /\ receivedDateIndexes(row) # {}
    THEN format(momentStrict(trim(row[firstIndex(receivedDateIndexes(row)) + 1])))
    ELSE receivedDate

\* The local developmentApplication is null.
NoApplication == 0

ScanRowKeepsCapture ==
    /\ pc = "scan"
    /\ scanned < Len(rows)
    /\ scanned' = scanned + 1
    /\ LET row == rows[scanned + 1]
           text == firstText(row)
           current == developmentApplications[currentApplication]
           endsAddress ==
               \/ isAddress /\ (trim(text) = <<>> \/ startsWith(text, FeesPrefix))
               \/ /\ isAddress
                  /\ ~(startsWith(text, PropertyDetailPrefix) /\ Len(row) >= 2)
                  /\ Len(row) >= 1
                  /\ \E prefix \in AllotmentPrefixes : startsWith(trim(row[1]), prefix)
           address ==
               IF isAddress /\ startsWith(text, PropertyDetailPrefix) /\ Len(row) >= 2
               THEN addressWith(current.address, trim(row[2]))
               ELSE IF isAddress /\ Len(row) >= 1
               THEN addressWith(current.address, trim(row[1]))
               ELSE current.address
       IN  IF startsApplication(row)
           THEN /\ developmentApplications' = Append(developmentApplications, newApplication(row))
                /\ currentApplication' = Len(developmentApplications) + 1
                /\ UNCHANGED isAddress
           ELSE IF currentApplication # NoApplication
           THEN IF ~isAddress /\ startsWith(text, PropertyDetailPrefix)
                THEN /\ isAddress' = TRUE
                     /\ developmentApplications' =
                            [developmentApplications EXCEPT ![currentApplication].receivedDate =
                                receivedDateWith(@, row)]
                     /\ UNCHANGED currentApplication
                ELSE IF endsAddress
                THEN /\ currentApplication' = NoApplication
                     /\ UNCHANGED <<isAddress, developmentApplications>>
                ELSE /\ developmentApplications' =
                            [developmentApplications EXCEPT ![currentApplication] =
                                [@ EXCEPT !.address = address,
                                          !.receivedDate = receivedDateWith(@, row)]]
                     /\ UNCHANGED <<isAddress, currentApplication>>
           ELSE UNCHANGED <<developmentApplications, isAddress, currentApplication>>
    /\ UNCHANGED <<pc, anchorVars, pdf, index, applicationNumberElement, descriptionElement,
                   receivedDateElement, addressElement, thrown, returned, program, rows,
                   textVars, storeVars, mainVars, runVars>>

\* One iteration of the loop over the rows.  currentApplication is the index
\* in developmentApplications of the object the local developmentApplication
\* refers to, or NoApplication.
ScanRow ==
    /\ pc = "scan"
    /\ scanned < Len(rows)
    /\ scanned' = scanned + 1
    /\ LET row == rows[scanned + 1]
           text == firstText(row)
           current == developmentApplications[currentApplication]
           endsAddress ==
               \/ isAddress /\ (trim(text) = <<>> \/ startsWith(text, FeesPrefix))
               \/ /\ isAddress
                  /\ ~(startsWith(text, PropertyDetailPrefix) /\ Len(row) >= 2)
                  /\ Len(row) >= 1
                  /\ \E prefix \in AllotmentPrefixes : startsWith(trim(row[1]), prefix)
           address ==
               IF isAddress /\ startsWith(text, PropertyDetailPrefix) /\ Len(row) >= 2
               THEN addressWith(current.address, trim(row[2]))
               ELSE IF isAddress /\ Len(row) >= 1
               THEN addressWith(current.address, trim(row[1]))
               ELSE current.address
       IN  IF startsApplication(row)
           THEN /\ developmentApplications' = Append(developmentApplications, newApplication(row))
                /\ currentApplication' = Len(developmentApplications) + 1
                /\ UNCHANGED isAddress
           ELSE IF currentApplication # NoApplication
           THEN IF ~isAddress /\ startsWith(text, PropertyDetailPrefix)
                THEN /\ isAddress' = TRUE
                     /\ developmentApplications' =
                            [developmentApplications EXCEPT ![currentApplication].receivedDate =
                                receivedDateWith(@, row)]
                     /\ UNCHANGED currentApplication
                ELSE IF endsAddress
                THEN /\ isAddress' = FALSE
                     /\ currentApplication' = NoApplication
                     /\ UNCHANGED developmentApplications
                ELSE /\ developmentApplications' =
                            [developmentApplications EXCEPT ![currentApplication] =
                                [@ EXCEPT !.address = address,
                                          !.receivedDate = receivedDateWith(@, row)]]
                     /\ UNCHANGED <<isAddress, currentApplication>>
           ELSE UNCHANGED <<developmentApplications, isAddress, currentApplication>>
    /\ UNCHANGED <<pc, anchorVars, pdf, index, applicationNumberElement, descriptionElement,
                   receivedDateElement, addressElement, thrown, returned, program, rows,
                   textVars, storeVars, mainVars, runVars>>

---------------------------------------------------------------------------
(* insertRow: the table [data], whose primary key is council_reference *)

MaxCalls == 3

\* The values the legacy statement binds to the columns.
rowOfLegacy(application) ==
    [ council_reference |-> application.applicationNumber,
      address |-> application.address,
      description |-> application.reason,
      info_url |-> application.informationUrl,
      comment_url |-> application.commentUrl,
      date_scraped |-> application.scrapeDate,
      date_received |-> application.receivedDate,
      on_notice_from |-> Null,
      on_notice_to |-> Null ]

\* The values the statement of the anchor-based program binds to the columns.
rowOf(application) ==
    [ council_reference |-> application.applicationNumber,
      address |-> application.address,
      description |-> application.description,
      info_url |-> application.informationUrl,
      comment_url |-> application.commentUrl,
      date_scraped |-> application.scrapeDate,
      date_received |-> application.receivedDate ]

hasKey(table, key) == \E stored \in table : stored.council_reference = key

\* insert or ignore: a row whose key is stored is not inserted.
insertOrIgnore(table, row) ==
    IF hasKey(table, row.council_reference) THEN table ELSE table \cup {row}

\* insert or replace: a stored row with the key is deleted, the row is inserted.
insertOrReplace(table, row) ==
    {stored \in table : stored.council_reference # row.council_reference} \cup {row}

\* insertRow of the legacy program.
insertRowLegacy(application) ==
    /\ program = "legacy"
    /\ pc = "insert"
    /\ Len(inserted) < MaxCalls
    /\ database' = insertOrIgnore(database, rowOfLegacy(application))
    /\ inserted' = Append(inserted, rowOfLegacy(application))
    /\ UNCHANGED <<pc, anchorVars, pageVars, program, rows, textVars, scanVars, mainVars, runVars>>

\* insertRow of the anchor-based program (scraper.ts and scraper.js).
insertRow(application) ==
    /\ program \in {"anchor", "js"}
    /\ pc = "insert"
    /\ Len(inserted) < MaxCalls
    /\ database' = insertOrReplace(database, rowOf(application))
    /\ inserted' = Append(inserted, rowOf(application))
    /\ UNCHANGED <<pc, anchorVars, pageVars, program, rows, textVars, scanVars, mainVars, runVars>>

---------------------------------------------------------------------------
(* main: the selection of the PDFs to parse *)

\* The integers getRandom(minimum, maximum) can return:
\* Math.floor(Math.random() * (maximum - minimum)) + minimum, with
\* 0 <= Math.random() < 1.
getRandom(minimum, maximum) ==
    IF maximum > minimum THEN minimum..(maximum - 1) ELSE maximum..minimum

\* array[i], with the indexes of the source (from 0): undefined out of the array.
at(array, i) == IF 0 <= i /\ i < Len(array) THEN array[i + 1] ELSE Undefined

\* array.shift(): the first element (undefined of an empty array) and the rest.
shifted(array) == IF array = <<>> THEN Undefined ELSE Head(array)

afterShift(array) == IF array = <<>> THEN <<>> ELSE Tail(array)

\* The selection of the legacy program: the other PDF is pdfUrls[getRandom(1, pdfUrls.length)].
selectPdfUrlsLegacy ==
    /\ program = "legacy"
    /\ pc = "select"
    /\ IF Len(pdfUrls) = 0
       THEN /\ pc' = "complete"
            /\ UNCHANGED <<pdfUrls, selectedPdfUrls>>
       ELSE /\ pc' = "selected"
            /\ pdfUrls' = afterShift(pdfUrls)
            /\ IF Len(pdfUrls') > 0
               THEN \E i \in getRandom(1, Len(pdfUrls')) :
                        selectedPdfUrls' = <<shifted(pdfUrls), at(pdfUrls', i)>>
               ELSE selectedPdfUrls' = <<shifted(pdfUrls)>>
    /\ UNCHANGED <<anchorVars, pageVars, program, rows, textVars, scanVars, storeVars,
                   randomPdfUrls, runVars>>

\* The selection of the anchor-based program (scraper.ts): the PDFs of a random
\* year are added to the remaining ones.
selectPdfUrls ==
    /\ program = "anchor"
    /\ pc = "select"
    /\ IF Len(pdfUrls) = 0 /\ Len(randomPdfUrls) = 0
       THEN /\ pc' = "complete"
            /\ UNCHANGED <<pdfUrls, selectedPdfUrls>>
       ELSE /\ pc' = "selected"
            /\ pdfUrls' = afterShift(pdfUrls) \o randomPdfUrls
            /\ IF Len(pdfUrls') > 0
               THEN \E i \in getRandom(0, Len(pdfUrls')) :
                        selectedPdfUrls' = <<shifted(pdfUrls), at(pdfUrls', i)>>
               ELSE selectedPdfUrls' = <<shifted(pdfUrls)>>
    /\ UNCHANGED <<anchorVars, pageVars, program, rows, textVars, scanVars, storeVars,
                   randomPdfUrls, runVars>>

\* The selection of scraper.js: one array of URLs without duplicates.
selectPdfUrlsJs ==
    /\ program = "js"
    /\ pc = "select"
    /\ IF Len(pdfUrls) = 0
       THEN /\ pc' = "complete"
            /\ UNCHANGED <<pdfUrls, selectedPdfUrls>>
       ELSE /\ pc' = "selected"
            /\ pdfUrls' = afterShift(pdfUrls)
            /\ IF Len(pdfUrls') > 0
               THEN \E i \in getRandom(0, Len(pdfUrls')) :
                        selectedPdfUrls' = <<shifted(pdfUrls), at(pdfUrls', i)>>
               ELSE selectedPdfUrls' = <<shifted(pdfUrls)>>
    /\ UNCHANGED <<anchorVars, pageVars, program, rows, textVars, scanVars, storeVars,
                   randomPdfUrls, runVars>>

---------------------------------------------------------------------------
(* main: the loop over the selected PDFs (scraper.ts and scraper.js) *)

\* The four elements parsePdf finds on a page.
foundOnPage(es) ==
    LET app == findClosestElement(es, DevAppNoLabel, Right)
    IN  [ applicationNumberElement |-> app,
          descriptionElement |-> IF app # Undefined
                                 THEN findClosestElement(es, app.text, Right)
                                 ELSE Undefined,
          receivedDateElement |-> findClosestElement(es, ReceivedLabel, Right),
          addressElement |-> findClosestElement(es, PropertyDetailLabel, Down) ]

\* parsePdf raises on the page.
pageRaises(es) ==
    /\ ~skipPage(foundOnPage(es).applicationNumberElement, foundOnPage(es).addressElement)
    /\ raisesTypeError(foundOnPage(es).descriptionElement)

\* The applications parsePdf(url) pushes of the pages from i on.
RECURSIVE applicationsFrom(_, _, _)
applicationsFrom(document, i, url) ==
    IF i > Len(document) THEN <<>>
    ELSE LET f == foundOnPage(document[i])
         IN  (IF skipPage(f.applicationNumberElement, f.addressElement)
              THEN <<>>
              ELSE <<[developmentApplication(f.applicationNumberElement, f.addressElement,
                                             f.descriptionElement, f.receivedDateElement)
                          EXCEPT !.informationUrl = url]>>)
             \o applicationsFrom(document, i + 1, url)

\* await parsePdf(pdfUrl): the promise is rejected when a page raises.
parsePdfRejects(document) == \E i \in 1..Len(document) : pageRaises(document[i])

\* The table after insertRow of each of the applications from i on.
RECURSIVE insertedAll(_, _, _)
insertedAll(table, applications, i) ==
    IF i > Len(applications) THEN table
    ELSE insertedAll(insertOrReplace(table, rowOf(applications[i])), applications, i + 1)

\* One iteration of the loop over selectedPdfUrls: the document is parsed and
\* its applications are inserted.  Nothing catches a rejection of parsePdf:
\* it ends main.
processDocument ==
    /\ program \in {"anchor", "js"}
    /\ pc = "documents"
    /\ processed < Len(selectedPdfUrls)
    /\ LET pdfUrl == selectedPdfUrls[processed + 1]
           document == documentOf[pdfUrl]
           applications == applicationsFrom(document, 1, pdfUrl)
       IN  IF parsePdfRejects(document)
           THEN /\ pc' = "rejected"
                /\ UNCHANGED <<processed, database, inserted>>
           ELSE /\ database' = insertedAll(database, applications, 1)
                /\ inserted' = inserted \o [i \in 1..Len(applications) |-> rowOf(applications[i])]
                /\ processed' = processed + 1
                /\ UNCHANGED pc
    /\ UNCHANGED <<anchorVars, pageVars, program, rows, textVars, scanVars, mainVars,
                   documentOf>>

\* The loop has ended: main().then(() => console.log("Complete."))
completeMain ==
    /\ program \in {"anchor", "js"}
    /\ pc = "documents"
    /\ processed = Len(selectedPdfUrls)
    /\ pc' = "complete"
    /\ UNCHANGED <<anchorVars, pageVars, restVars>>

---------------------------------------------------------------------------
(* Bounded inputs of the geometry and of the resolver *)

MaxCoord == 6
MaxLen == 4

Coords == {2 * k : k \in 0..MaxCoord}
Widths == {0 - 10, 0, 10}
Heights == {0 - 4, 0, 4}

T_Ab_c == <<"A", "b", " ", "c">>
T_x == <<"x">>
L_aB == <<"a", "B">>
L_x_y == <<"x", " ", "y">>

GeometryFirst == {Element(T_x, 4, 4, w, h) : w \in Widths, h \in Heights}

GeometrySecond ==
    {Element(T_x, x, y, wh[1], wh[2]) : x \in Coords, y \in Coords, wh \in Widths \X Heights}

FindLabels == {L_aB, L_x_y}

FindPool ==
    { Element(T_Ab_c, 20, 20, 10, 10),   \* an ordinary anchor
      Element(T_Ab_c, 20, 20, 0, 10),    \* an anchor of width 0
      Element(T_Ab_c, 20, 20, 10, 0),    \* an anchor of height 0
      Element(T_x, 32, 20, 10, 10),      \* right of it, on its line
      Element(T_x, 30, 30, 10, 10),      \* close, but on neither its line nor its column
      Element(T_x, 60, 22, 10, 10),      \* far right, on its line
      Element(T_x, 60, 22, 20, 10),      \* the same left edge midpoint
      Element(T_x, 20, 32, 10, 10),      \* below it, in its column
      Element(T_x, 20, 32, 20, 4),       \* the same top point
      Element(T_x, 20, 0, 10, 10),       \* above it, in its column
      Element(T_x, 0, 22, 10, 10),       \* left of it, on its line
      Element(T_Ab_c, 20, 50, 10, 10) }  \* a second text match, further below

RECURSIVE SeqsUpTo(_, _)
SeqsUpTo(S, n) ==
    IF n = 0 THEN {<<>>}
    ELSE LET shorter == SeqsUpTo(S, n - 1)
         IN  shorter \cup {Append(s, e) : s \in {t \in shorter : Len(t) = n - 1}, e \in S}

---------------------------------------------------------------------------
(* Bounded inputs of parsePdf: the pages *)

T_Number == <<"1", "2", "3", "/", "2", "0", "1", "8">>
T_NumberSpaced == <<" ", "1", "2", " ", "3", "/", "2", "0", "1", "8", " ">>
T_Blank == <<" ", " ">>
T_Shed == <<" ", "S", "h", "e", "d", " ">>
T_Address == <<"1", "0", " ", "M", "a", "i", "n", " ", "S", "t">>
T_AddressUpper == <<" ", "P", "R", "O", "P", "E", "R", "T", "Y", " ", "D", "E", "T", "A", "I", "L", "S">>
T_Date1 == <<"5", "/", "0", "3", "/", "2", "0", "1", "9">>
T_Date2 == <<" ", "0", "5", "/", "0", "3", "/", "2", "0", "1", "9", " ">>
T_Date3 == <<"3", "2", "/", "1", "3", "/", "2", "0", "1", "9">>
T_Date4 == <<"2", "9", "/", "0", "2", "/", "2", "0", "1", "9">>
T_Date5 == <<"2", "9", "/", "0", "2", "/", "2", "0", "2", "0">>
T_Date6 == <<"5", "/", "3", "/", "2", "0", "1", "9">>
T_Date7 == <<"3", "1", "/", "0", "4", "/", "2", "0", "1", "9">>
T_Date8 == <<"2", "9", "/", "0", "2", "/", "2", "1", "0", "0">>

NumberTexts == {T_Number, T_NumberSpaced, T_Blank}
DescriptionTexts == {T_Shed, T_Blank}
AddressTexts == {T_Address, PropertyDetailLabel, T_AddressUpper, T_Blank}
DateTexts == {T_Date1, T_Date2, T_Date3, T_Date4, T_Date5, T_Date6, T_Date7, T_Date8}

\* A slot of the page layout: nothing, or one of the elements.
Optional(S) == {<<>>} \cup {<<e>> : e \in S}

\* A stray text of height 0 that repeats the application number.
StraySlot == Optional({Element(T_Number, 200, 100, 40, 0)})
DevAppNoSlot == Optional({Element(DevAppNoLabel, 0, 0, 50, 10)})
NumberSlot == Optional({Element(t, 55, 0, 40, 10) : t \in NumberTexts})
DescriptionSlot == Optional({Element(t, 100, 0, 40, 10) : t \in DescriptionTexts})
PropertyDetailSlot == Optional({Element(PropertyDetailLabel, 0, 20, 60, 10)})
AddressSlot == Optional({Element(t, 0, 35, 60, 10) : t \in AddressTexts})
ReceivedSlot == Optional({Element(ReceivedLabel, 100, 20, 100, 10)})
DateSlot == Optional({Element(t, 205, 20, 40, 10) : t \in DateTexts})

\* The pages whose texts come in reading order.
PagesInOrder ==
    {s1 \o s2 \o s3 \o s4 \o s5 \o s6 \o s7 \o s8 :
        s1 \in StraySlot, s2 \in DevAppNoSlot, s3 \in NumberSlot, s4 \in DescriptionSlot,
        s5 \in PropertyDetailSlot, s6 \in AddressSlot, s7 \in ReceivedSlot, s8 \in DateSlot}

Reverse(s) == [i \in 1..Len(s) |-> s[Len(s) + 1 - i]]

\* The same pages with their texts extracted in the order of the layout or backwards.
Pages == PagesInOrder \cup {Reverse(p) : p \in PagesInOrder}

---------------------------------------------------------------------------
(* Bounded inputs of convertPdfToText: the pages of texts *)

MaxTexts == 3

TextXs == {0, 1}
TextYs == {0, 1, 2}

T_a == <<"a">>
T_b_c == <<"b", "%", "2", "0", "c">>

Runs == { <<[T |-> T_a]>>, <<[T |-> T_b_c], [T |-> T_a]>> }

TextPool == {Text(x, y, R) : x \in TextXs, y \in TextYs, R \in Runs}

TextPoolOneRun == {t \in TextPool : Len(t.R) = 1}

\* Documents of one page of up to MaxTexts texts, and of two shorter pages.
TextDocuments ==
    {<<[Texts |-> ts]>> : ts \in SeqsUpTo(TextPool, MaxTexts)}
    \cup {<<[Texts |-> ts1], [Texts |-> ts2]>> :
              ts1 \in SeqsUpTo(TextPoolOneRun, MaxTexts - 1),
              ts2 \in SeqsUpTo(TextPoolOneRun, MaxTexts - 1)}

---------------------------------------------------------------------------
(* Bounded inputs of insertRow: the records *)

T_Number2 == <<"7", "/", "2", "0", "1", "9">>
T_Address2 == <<"2", " ", "H", "i", "g", "h", " ", "S", "t">>

ApplicationsLegacy ==
    { [ applicationNumber |-> n, address |-> a, reason |-> d, informationUrl |-> Url,
        commentUrl |-> CommentUrl, scrapeDate |-> format(Today), receivedDate |-> <<>> ] :
        n \in {T_Number, T_Number2}, a \in {T_Address, T_Address2},
        d \in {trim(T_Shed), NoDescriptionProvided} }

Applications ==
    { [ applicationNumber |-> n, address |-> a, description |-> d, informationUrl |-> Url,
        commentUrl |-> CommentUrl, scrapeDate |-> format(Today), receivedDate |-> <<>> ] :
        n \in {T_Number, T_Number2}, a \in {T_Address, T_Address2},
        d \in {trim(T_Shed), NoDescriptionProvided} }

Programs == {"legacy", "anchor", "js"}

---------------------------------------------------------------------------
(* Bounded inputs of main: the URLs the pages list *)

MaxUrls == 3

PdfUrls == {[href |-> k] : k \in 1..MaxUrls}

\* The arrays the loops over the links build: no URL twice.
UrlArrays ==
    {a \in SeqsUpTo(PdfUrls, MaxUrls) : \A i, j \in 1..Len(a) : a[i] = a[j] => i = j}

---------------------------------------------------------------------------
(* Bounded inputs of parsePdf: documents of several pages *)

MaxPages == 3

E_DevAppNo == Element(DevAppNoLabel, 0, 0, 50, 10)
E_Number == Element(T_Number, 55, 0, 40, 10)
E_Number2 == Element(T_Number2, 55, 0, 40, 10)
E_Shed == Element(T_Shed, 100, 0, 40, 10)
E_PropertyDetail == Element(PropertyDetailLabel, 0, 20, 60, 10)
E_Address == Element(T_Address, 0, 35, 60, 10)
E_Address2 == Element(T_Address2, 0, 35, 60, 10)
E_Received == Element(ReceivedLabel, 100, 20, 100, 10)
E_Date == Element(T_Date1, 205, 20, 40, 10)
E_Stray == Element(T_Number, 200, 100, 40, 0)

DocPages ==
    { <<E_DevAppNo, E_Number, E_PropertyDetail, E_Address>>,
      <<E_DevAppNo, E_Number2, E_Shed, E_PropertyDetail, E_Address2, E_Received, E_Date>>,
      <<E_DevAppNo, E_Number, E_Shed>>,                            \* no address
      <<E_PropertyDetail, E_Address2, E_Received, E_Date>>,        \* no application number
      <<E_Stray, E_DevAppNo, E_Number, E_PropertyDetail, E_Address>>,
      <<>> }

Documents == SeqsUpTo(DocPages, MaxPages)

---------------------------------------------------------------------------
(* Bounded inputs of the row scanner: the rows of texts *)

MaxRows == 4

T_DevAppNoUpper == <<" ", "D", "E", "V", " ", "A", "P", "P", " ", "N", "O", ".", " ">>
T_Fees == <<"F", "e", "e", "s">>
T_Lot == <<"L", "O", "T", ":", " ", "1">>

RowPool ==
    { <<DevAppNoLabel, T_NumberSpaced, T_Shed>>,
      <<T_DevAppNoUpper, T_Number2, T_Blank, ReceivedLabel, T_Date1>>,
      <<DevAppNoLabel, T_Number>>,
      <<PropertyDetailLabel>>,
      <<PropertyDetailLabel, T_Address>>,
      <<T_Address2, ReceivedLabel, T_Date5>>,
      <<>>,
      <<T_Fees, ReceivedLabel, T_Date5>>,
      <<T_Lot>>,
      <<ReceivedLabel, T_Date1>>,
      <<ReceivedLabel, T_Date3>> }

---------------------------------------------------------------------------
(* Bounded inputs of the loop of main: the documents behind the URLs *)

RunDocuments ==
    { << <<E_DevAppNo, E_Number, E_PropertyDetail, E_Address>> >>,
      << <<E_DevAppNo, E_Number2, E_Shed, E_PropertyDetail, E_Address2, E_Received, E_Date>> >>,
      << <<E_DevAppNo, E_Number2, E_PropertyDetail, E_Address2>>,
         <<E_Stray, E_DevAppNo, E_Number, E_PropertyDetail, E_Address>> >>,
      <<>> }

\* The selections of one or two different URLs.
Selections == {a \in UrlArrays : Len(a) \in {1, 2}}

None == "none"

\* The variables of the geometry call, of the resolver call and of parsePdf at rest.
GeomIdle == element1 = None /\ element2 = None /\ distance = None /\ overlap = None

FindIdle == label = None /\ closest = None

PageIdle ==
    /\ pdf = <<>> /\ index = 0
    /\ applicationNumberElement = None /\ descriptionElement = None
    /\ receivedDateElement = None /\ addressElement = None
    /\ developmentApplications = <<>> /\ thrown = FALSE /\ returned = None

TextIdle == pdfPages = None /\ smallestYValueForPage = None /\ myPages = None

ScanIdle == scanned = None /\ isAddress = None /\ currentApplication = None

StoreIdle == database = None /\ inserted = None

MainIdle == pdfUrls = None /\ randomPdfUrls = None /\ selectedPdfUrls = None

RunIdle == documentOf = None /\ processed = None

RestIdle ==
    /\ program = None /\ rows = None
    /\ TextIdle /\ ScanIdle /\ StoreIdle /\ MainIdle /\ RunIdle

AnchorIdle == elements = <<>> /\ dir = None /\ GeomIdle /\ FindIdle

---------------------------------------------------------------------------
(* SpecGeom: calculateDistance and isOverlap applied to a pair of elements *)

InitGeom ==
    /\ pc = "start"
    /\ element1 \in GeometryFirst
    /\ element2 \in GeometrySecond
    /\ dir \in Directions
    /\ distance = None /\ overlap = None
    /\ elements = <<>>
    /\ FindIdle /\ PageIdle /\ RestIdle

Measure ==
    /\ pc = "start"
    /\ pc' = "measured"
    /\ distance' = calculateDistance(element1, element2, dir)
    /\ overlap' = isOverlap(element1, element2, dir)
    /\ UNCHANGED <<element1, element2, elements, dir, findVars, pageVars, restVars>>

NextGeom == Measure

SpecGeom == InitGeom /\ [][NextGeom]_vars

---------------------------------------------------------------------------
(* SpecFind: findClosestElement applied to a list of elements *)

InitFind ==
    /\ pc = "start"
    /\ elements \in SeqsUpTo(FindPool, MaxLen)
    /\ dir = None
    /\ FindIdle /\ GeomIdle /\ PageIdle /\ RestIdle

FindClosest ==
    /\ pc = "start"
    /\ \E t \in FindLabels, d \in Directions :
          /\ label' = t
          /\ dir' = d
          /\ closest' = findClosestElement(elements, t, d)
    /\ pc' = "found"
    /\ UNCHANGED <<elements, geomVars, pageVars, restVars>>

NextFind == FindClosest

SpecFind == InitFind /\ [][NextFind]_vars

---------------------------------------------------------------------------
(* SpecText: convertPdfToText applied to a document *)

InitText ==
    /\ pc = "convert"
    /\ program = "legacy"
    /\ pdfPages \in TextDocuments
    /\ smallestYValueForPage = None /\ myPages = None /\ rows = None
    /\ ScanIdle /\ StoreIdle /\ MainIdle
    /\ AnchorIdle /\ PageIdle /\ RunIdle

NextText == ConvertPdfToText

SpecText == InitText /\ [][NextText]_vars

---------------------------------------------------------------------------
(* SpecStore: a sequence of insertRow calls on an empty table *)

InitStore ==
    /\ pc = "insert"
    /\ program \in Programs
    /\ database = {}
    /\ inserted = <<>>
    /\ rows = None
    /\ TextIdle /\ ScanIdle /\ MainIdle
    /\ AnchorIdle /\ PageIdle /\ RunIdle

NextStore ==
    \/ \E application \in ApplicationsLegacy : insertRowLegacy(application)
    \/ \E application \in Applications : insertRow(application)

SpecStore == InitStore /\ [][NextStore]_vars

---------------------------------------------------------------------------
(* SpecMain: the selection of main applied to the URLs found *)

InitMain ==
    /\ pc = "select"
    /\ program \in Programs
    /\ pdfUrls \in UrlArrays
    /\ randomPdfUrls \in IF program = "anchor" THEN UrlArrays ELSE {<<>>}
    /\ selectedPdfUrls = <<>>
    /\ rows = None
    /\ TextIdle /\ ScanIdle /\ StoreIdle
    /\ AnchorIdle /\ PageIdle /\ RunIdle

NextMain == selectPdfUrlsLegacy \/ selectPdfUrls \/ selectPdfUrlsJs

SpecMain == InitMain /\ [][NextMain]_vars

---------------------------------------------------------------------------
(* SpecRows: the row scanner applied to the rows of a document *)

InitRows ==
    /\ pc = "scan"
    /\ program = "legacy"
    /\ rows \in SeqsUpTo(RowPool, MaxRows)
    /\ scanned = 0
    /\ isAddress = FALSE
    /\ currentApplication = NoApplication
    /\ developmentApplications = <<>>
    /\ pdf = <<>> /\ index = 0
    /\ applicationNumberElement = None /\ descriptionElement = None
    /\ receivedDateElement = None /\ addressElement = None
    /\ thrown = FALSE /\ returned = None
    /\ TextIdle /\ StoreIdle /\ MainIdle
    /\ AnchorIdle /\ RunIdle

NextRows == ScanRow

SpecRows == InitRows /\ [][NextRows]_vars

---------------------------------------------------------------------------
(* SpecRun: the loop of main applied to the selected PDFs *)

InitRun ==
    /\ pc = "documents"
    /\ program \in {"anchor", "js"}
    /\ selectedPdfUrls \in Selections
    /\ pdfUrls = <<>> /\ randomPdfUrls = <<>>
    /\ documentOf \in [PdfUrls -> RunDocuments]
    /\ processed = 0
    /\ database = {}
    /\ inserted = <<>>
    /\ rows = None
    /\ TextIdle /\ ScanIdle
    /\ AnchorIdle /\ PageIdle

NextRun == processDocument \/ completeMain

SpecRun == InitRun /\ [][NextRun]_vars

---------------------------------------------------------------------------
(* SpecPage: parsePdf applied to a document of one page *)

InitPage ==
    /\ pc = "loop"
    /\ pdf \in {<<p>> : p \in Pages}
    /\ index = 0
    /\ elements = <<>>
    /\ applicationNumberElement = None /\ descriptionElement = None
    /\ receivedDateElement = None /\ addressElement = None
    /\ developmentApplications = <<>> /\ thrown = FALSE /\ returned = None
    /\ dir = None
    /\ GeomIdle /\ FindIdle /\ RestIdle

NextPage == ParsePage \/ Return

SpecPage == InitPage /\ [][NextPage]_vars

---------------------------------------------------------------------------
(* Claims about the resolver (SpecFind) and the geometry (SpecGeom) *)

Found == pc = "found"

HasAnchor == matchingIndexes(elements, label) # {}

\* The anchor: the first element whose text starts with the label.
Anchor == elements[firstIndex(matchingIndexes(elements, label))]

\* The indexes of the elements that overlap the anchor in the direction of the call.
Overlapping == {i \in 1..Len(elements) : isOverlap(Anchor, elements[i], dir)}

\* The overlapping elements no overlapping element is strictly closer than.
Nearest ==
    {i \in Overlapping :
        \A j \in Overlapping :
            calculateDistance(Anchor, elements[i], dir)
                <= calculateDistance(Anchor, elements[j], dir)}

\* C1: whenever findClosestElement returns an element, that element overlaps
\* the anchor (the first element whose text starts with the label, whatever
\* the case of the letters) in the direction of the call.
C1_ReturnedOverlapsAnchor ==
    (Found /\ closest # Undefined) => (HasAnchor /\ isOverlap(Anchor, closest, dir))

\* An element was returned from a list that also holds an element that does
\* not overlap the anchor and is closer to it than the one returned.
C1_Witness ==
    /\ Found /\ closest # Undefined
    /\ \E i \in 1..Len(elements) :
          /\ ~isOverlap(Anchor, elements[i], dir)
          /\ calculateDistance(Anchor, elements[i], dir)
                < calculateDistance(Anchor, closest, dir)

Measured == pc = "measured"

\* The size of the element along the direction: its width to the right, its height down.
Extent(e, d) == IF d = Right THEN e.width ELSE e.height

\* C3 as stated: if isOverlap(A, A, dir) then calculateDistance(A, A, dir) = 0,
\* for dir Right or Down.
C3_SelfDistanceZero ==
    (Measured /\ element2 = element1 /\ dir \in {Right, Down} /\ overlap)
        => distance = 0

\* C3 as amended: if isOverlap(A, A, dir) then calculateDistance(A, A, dir) is
\* MAX_VALUE when the extent of A along dir (width for Right, height for Down)
\* is positive, and the square of that extent otherwise, hence 0 exactly when
\* the extent is 0.
C3_SelfDistanceByExtent ==
    (Measured /\ element2 = element1 /\ dir \in {Right, Down} /\ overlap)
        => distance = IF Extent(element1, dir) > 0 THEN MAX_VALUE
                      ELSE Extent(element1, dir) * Extent(element1, dir)

\* An element of positive width and height measured against itself.
C3_Witness ==
    /\ Measured /\ element2 = element1 /\ dir \in {Right, Down} /\ overlap
    /\ element1.width > 0 /\ element1.height > 0
    /\ distance = MAX_VALUE

\* C4: the element returned overlaps the anchor, no overlapping element is
\* strictly closer to the anchor, and it is the earliest, in the order of the
\* list, of the overlapping elements at that least distance; an element that
\* does not overlap is never returned, however close it is.
C4_EarliestNearestOverlapping ==
    (Found /\ closest # Undefined)
        => /\ HasAnchor
           /\ Nearest # {}
           /\ closest = elements[firstIndex(Nearest)]

\* Two different overlapping elements tie at the least distance, and an
\* element that does not overlap is strictly closer than both.
C4_Witness ==
    /\ Found /\ closest # Undefined
    /\ calculateDistance(Anchor, closest, dir) < MAX_VALUE
    /\ \E i \in Nearest : elements[i] # closest
    /\ \E i \in 1..Len(elements) :
          /\ i \notin Overlapping
          /\ calculateDistance(Anchor, elements[i], dir)
                < calculateDistance(Anchor, closest, dir)


---------------------------------------------------------------------------
(* Claims about parsePdf (SpecPage) *)

\* parsePdf has ended: it returned its array or it raised.
Done == pc \in {"returned", "rejected"}

\* The records parsePdf handed to its caller.
Emitted == IF pc = "returned" THEN returned ELSE <<>>

\* The application number and the address are present and not blank, and the
\* address does not start with "property detail".
Valid ==
    /\ applicationNumberElement # Undefined
    /\ trim(applicationNumberElement.text) # <<>>
    /\ addressElement # Undefined
    /\ trim(addressElement.text) # <<>>
    /\ ~startsWith(toLowerCase(trim(addressElement.text)), PropertyDetailPrefix)

\* C5: the page gives exactly one record if the application number element is
\* present with a text that is not blank and the address element is present
\* with a text that is not blank and does not start with "property detail";
\* it gives no record in every other case, and never more than one.
C5_OneRecordIffValid ==
    Done => Len(Emitted) = IF Valid THEN 1 ELSE 0

\* Scenario 1 of the specification, in its extraction order.
Scenario1 ==
    << Element(DevAppNoLabel, 0, 0, 50, 10),
       Element(T_Number, 55, 0, 40, 10),
       Element(PropertyDetailLabel, 0, 20, 60, 10),
       Element(T_Address, 0, 35, 60, 10) >>

\* C6: the page of scenario 1 gives one record with applicationNumber
\* "123/2018", address "10 Main St", description "No description provided"
\* and receivedDate "".
C6_Scenario1Record ==
    (Done /\ pdf = <<Scenario1>>)
        => /\ Len(Emitted) = 1
           /\ Emitted[1].applicationNumber = T_Number
           /\ Emitted[1].address = T_Address
           /\ Emitted[1].description = NoDescriptionProvided
           /\ Emitted[1].receivedDate = <<>>

\* The page of scenario 1 is parsed and gives a record.
C6_Witness ==
    Done /\ pdf = <<Scenario1>> /\ Len(Emitted) = 1

HasPropertyDetail == matchingIndexes(elements, PropertyDetailLabel) # {}

PropertyDetail == elements[firstIndex(matchingIndexes(elements, PropertyDetailLabel))]

\* No element in the column of the "Property Detail" label is at a distance
\* below it other than MAX_VALUE.
NoValueBelow ==
    \A i \in 1..Len(elements) :
        isOverlap(PropertyDetail, elements[i], Down)
            => calculateDistance(PropertyDetail, elements[i], Down) = MAX_VALUE

\* C7: on a page whose "Property Detail" label has no value below it, the
\* address resolves to the label itself and the page gives no record, whatever
\* else the page holds and in whatever order.
C7_LabelWithoutValueSkipped ==
    (Done /\ HasPropertyDetail /\ NoValueBelow)
        => (addressElement = PropertyDetail /\ Emitted = <<>>)

\* C8: if the element resolved as nearest below "Property Detail" has a text
\* that, trimmed and in lower case, starts with "property detail", the page
\* gives no record, also when the application number is present and not blank.
C8_AddressIsLabelSkipped ==
    (Done /\ addressElement # Undefined
          /\ startsWith(toLowerCase(trim(addressElement.text)), PropertyDetailPrefix))
        => (Emitted = <<>> /\ developmentApplications = <<>>)

\* The address of scenario 2, the text "Property Detail", under the label, with
\* an application number that is present and not blank.
C8_Witness ==
    /\ Done
    /\ applicationNumberElement # Undefined
    /\ trim(applicationNumberElement.text) = T_Number
    /\ addressElement = Element(PropertyDetailLabel, 0, 35, 60, 10)
    /\ Emitted = <<>>

ISO_2019_03_05 == <<"2", "0", "1", "9", "-", "0", "3", "-", "0", "5">>

ISO_2020_02_29 == <<"2", "0", "2", "0", "-", "0", "2", "-", "2", "9">>

\* The dates of the pages, by hand: the texts that are a calendar date in the
\* form D/MM/YYYY or DD/MM/YYYY, with the ISO date each stands for.
ExpectedReceivedDate ==
    IF receivedDateElement = Undefined THEN <<>>
    ELSE LET t == trim(receivedDateElement.text)
         IN  IF t = T_Date1 THEN ISO_2019_03_05
             ELSE IF t = <<"0">> \o T_Date1 THEN ISO_2019_03_05
             ELSE IF t = T_Date5 THEN ISO_2020_02_29
             ELSE <<>>

\* C9: the receivedDate of a record is the ISO date of the received date
\* element's trimmed text when that is a calendar date in the form D/MM/YYYY or
\* DD/MM/YYYY, and "" when the element is absent or its text is no such date;
\* and a page gives no record only for its application number, its address or
\* a description lookup that failed, never for its date.
C9_ReceivedDate ==
    Done => /\ \A i \in 1..Len(Emitted) : Emitted[i].receivedDate = ExpectedReceivedDate
            /\ (Emitted = <<>>) => (~Valid \/ descriptionElement = Undefined)

\* A record whose date came from the text "5/03/2019".
C9_Witness ==
    /\ Done /\ Len(Emitted) = 1
    /\ receivedDateElement # Undefined
    /\ receivedDateElement.text = T_Date1
    /\ Emitted[1].receivedDate = ISO_2019_03_05

\* C10: on a page that passes the validation, description is the description
\* element's trimmed text when the element is present and that text is not
\* blank, and "No description provided" when the element is absent or its text
\* is blank; an absent element raises nothing.
C10_DescriptionOrFallback ==
    (Done /\ Valid)
        => /\ ~thrown
           /\ Len(Emitted) = 1
           /\ Emitted[1].description =
                 IF descriptionElement # Undefined /\ trim(descriptionElement.text) # <<>>
                 THEN trim(descriptionElement.text)
                 ELSE NoDescriptionProvided

---------------------------------------------------------------------------
(* Claims about convertPdfToText *)

Converted == pc = "converted"

\* The y differences of the pairs of different texts of a page with the same x.
SameXDifferences(page) ==
    {abs(page.Texts[i].y - page.Texts[j].y) :
        <<i, j>> \in {p \in (1..Len(page.Texts)) \X (1..Len(page.Texts)) :
                         p[1] < p[2] /\ page.Texts[p[1]].x = page.Texts[p[2]].x}}

Least(S) == CHOOSE d \in S : \A e \in S : d <= e

\* C11 (as stated): the row-merge tolerance of a page is the minimum positive
\* |y difference| over the pairs of texts of the page with the same x, and 0
\* when the page has no pair of texts with the same x.
C11_ToleranceMinimumPositive ==
    Converted =>
        \A i \in 1..Len(pdfPages) :
            LET positive == {d \in SameXDifferences(pdfPages[i]) : d > 0}
            IN  IF positive = {}
                THEN smallestYValueForPage[i] = 0
                ELSE smallestYValueForPage[i] = Least(positive)

\* C11 (amended): the row-merge tolerance of a page is the minimum |y difference|,
\* zero included, over the pairs of different texts of the page with the same
\* x, and 0 when the page has no such pair.
C11_ToleranceMinimum ==
    Converted =>
        \A i \in 1..Len(pdfPages) :
            IF SameXDifferences(pdfPages[i]) = {}
            THEN smallestYValueForPage[i] = 0
            ELSE smallestYValueForPage[i] = Least(SameXDifferences(pdfPages[i]))

\* A page with two texts at the same position and a third one with their x
\* further down: the tolerance is 0, the minimum positive difference is not.
C11_Witness ==
    /\ Converted
    /\ \E i \in 1..Len(pdfPages) :
          /\ 0 \in SameXDifferences(pdfPages[i])
          /\ \E d \in SameXDifferences(pdfPages[i]) : d > 0
          /\ smallestYValueForPage[i] = 0

\* The x co-ordinates of the texts of a page.
XsOf(page) == {page.Texts[i].x : i \in 1..Len(page.Texts)}

\* The y differences of all the pairs of different texts of a page.
Differences(page) ==
    {abs(page.Texts[i].y - page.Texts[j].y) :
        <<i, j>> \in {p \in (1..Len(page.Texts)) \X (1..Len(page.Texts)) : p[1] < p[2]}}

\* The page with the runs of each text replaced by one run that names the
\* text's y, so that the entries of a row tell the y of the texts they are of.
YNames == <<"0", "1", "2", "3">>

NamedByY(page) ==
    [Texts |-> [i \in 1..Len(page.Texts) |->
                   Text(page.Texts[i].x, page.Texts[i].y,
                        <<[T |-> <<YNames[page.Texts[i].y + 1]>>]>>)]]

\* No row of the page, built with the tolerance the program computed, holds
\* entries of texts of two different y values.
NoRowOfTwoYs(i) ==
    \A row \in {rowsOfPage(NamedByY(pdfPages[i]), smallestYValueForPage[i])[k] :
                   k \in 1..Len(myPages[i])} :
        \A k1, k2 \in 1..Len(row.data) : row.data[k1].text = row.data[k2].text

\* C12 (as stated): when all the texts of a page have one single x, the merge
\* tolerance of the page is 0 and two texts with different y values are never
\* in the same row.
C12_SingleXToleranceZero ==
    Converted =>
        \A i \in 1..Len(pdfPages) :
            Cardinality(XsOf(pdfPages[i])) = 1 =>
                /\ smallestYValueForPage[i] = 0
                /\ NoRowOfTwoYs(i)

\* C12 (amended): when all the texts of a page have one single x, the merge
\* tolerance of the page is the smallest |y difference| of two of its texts (0
\* when it has one text only), and two texts with different y values are never
\* in the same row.
C12_SingleXNeverMerges ==
    Converted =>
        \A i \in 1..Len(pdfPages) :
            Cardinality(XsOf(pdfPages[i])) = 1 =>
                /\ smallestYValueForPage[i] =
                       IF Differences(pdfPages[i]) = {} THEN 0
                       ELSE Least(Differences(pdfPages[i]))
                /\ NoRowOfTwoYs(i)

\* A page of one x with texts at different y values: its tolerance is positive
\* and it has more than one row.
C12_Witness ==
    /\ Converted
    /\ \E i \in 1..Len(pdfPages) :
          /\ Cardinality(XsOf(pdfPages[i])) = 1
          /\ Len(pdfPages[i].Texts) = MaxTexts
          /\ smallestYValueForPage[i] > 0
          /\ Len(myPages[i]) > 1

\* The number of runs of the texts of a page and of entries of its rows.
RECURSIVE RunsFrom(_, _)
RunsFrom(texts, i) ==
    IF i > Len(texts) THEN 0 ELSE Len(texts[i].R) + RunsFrom(texts, i + 1)

RECURSIVE EntriesFrom(_, _)
EntriesFrom(rs, i) ==
    IF i > Len(rs) THEN 0 ELSE Len(rs[i].data) + EntriesFrom(rs, i + 1)

\* The loop over the rows with a break after the first row found.
addToRowsFirstFound(rs, text, maximumYdifference) ==
    LET found == {i \in 1..Len(rs) : inRange(rs[i], text, maximumYdifference)}
        last == CHOOSE i \in found : \A j \in found : j <= i
    IN  IF found # {}
        THEN [rs EXCEPT ![last].data = @ \o entriesOf(text)]
        ELSE Append(rs, [y |-> text.y, data |-> entriesOf(text)])

RECURSIVE RowsFirstFound(_, _, _, _)
RowsFirstFound(texts, textIndex, maximumYdifference, rs) ==
    IF textIndex > Len(texts) THEN rs
    ELSE RowsFirstFound(texts, textIndex + 1, maximumYdifference,
                        addToRowsFirstFound(rs, texts[textIndex], maximumYdifference))

\* The rows of a page when each text goes to the last row in whose range it is.
SortedRowsFirstFound(i) ==
    LET built == RowsFirstFound(pdfPages[i].Texts, 1, smallestYValueForPage[i], <<>>)
    IN  sort([k \in 1..Len(built) |-> [built[k] EXCEPT !.data = sort(@, "x")]], "y")

\* C18: every text of a page is attached to exactly one row: the most recently
\* created row with row.y - tol < text.y < row.y + tol or, when there is none,
\* a new row of the text's y.  No text is in two rows and none is lost.
C18_EachTextInOneRow ==
    Converted =>
        \A i \in 1..Len(pdfPages) :
            /\ myPages[i] = SortedRowsFirstFound(i)
            /\ EntriesFrom(myPages[i], 1) = RunsFrom(pdfPages[i].Texts, 1)

\* A text in the range of two rows of its page.
C18_Witness ==
    /\ Converted
    /\ \E i \in 1..Len(pdfPages) :
          \E k \in 1..Len(pdfPages[i].Texts), r1, r2 \in 1..Len(myPages[i]) :
              /\ r1 # r2
              /\ inRange(myPages[i][r1], pdfPages[i].Texts[k], smallestYValueForPage[i])
              /\ inRange(myPages[i][r2], pdfPages[i].Texts[k], smallestYValueForPage[i])

\* The number of rows of the pages before page i.
RECURSIVE RowsBefore(_)
RowsBefore(i) == IF i <= 1 THEN 0 ELSE Len(myPages[i - 1]) + RowsBefore(i - 1)

\* C19: the texts of each row are in ascending order of the x of their text,
\* the rows of a page are in ascending order of their y, and the rows of the
\* pages follow each other in the order of the pages.
C19_RowsInOrder ==
    Converted =>
        /\ \A i \in 1..Len(myPages) :
               /\ \A k, l \in 1..Len(myPages[i]) :
                      k < l => myPages[i][k].y <= myPages[i][l].y
               /\ \A k \in 1..Len(myPages[i]) :
                      \A m, n \in 1..Len(myPages[i][k].data) :
                          m < n => myPages[i][k].data[m].x <= myPages[i][k].data[n].x
               /\ \A k \in 1..Len(myPages[i]) :
                      rows[RowsBefore(i) + k] =
                          [m \in 1..Len(myPages[i][k].data) |-> myPages[i][k].data[m].text]
        /\ Len(rows) = RowsBefore(Len(myPages) + 1)

\* A document of two pages with rows, one of which had its texts out of order.
C19_Witness ==
    /\ Converted
    /\ Len(pdfPages) = 2
    /\ \A i \in 1..2 : Len(myPages[i]) >= 1
    /\ \E i \in 1..2 : myPages[i] # rowsOfPageUnsorted(pdfPages[i], smallestYValueForPage[i])

---------------------------------------------------------------------------
(* Claims about insertRow *)

KeysInserted == {inserted[i].council_reference : i \in 1..Len(inserted)}

FirstCall(key) ==
    inserted[CHOOSE i \in 1..Len(inserted) :
                 /\ inserted[i].council_reference = key
                 /\ \A j \in 1..(i - 1) : inserted[j].council_reference # key]

\* C13: insertRow inserts a record only if no row with its application number
\* is stored, and leaves the stored row unchanged otherwise: after any sequence
\* of insertRow calls there is one row per key, the one of the first call with
\* that key.
C13_FirstRowKept ==
    pc = "insert" =>
        \A key \in KeysInserted :
            {stored \in database : stored.council_reference = key} = {FirstCall(key)}

\* Two calls with one key and different rows have been made.
C13_Witness ==
    /\ pc = "insert"
    /\ \E i, j \in 1..Len(inserted) :
          /\ i < j
          /\ inserted[i].council_reference = inserted[j].council_reference
          /\ inserted[i] # inserted[j]

---------------------------------------------------------------------------
(* Claims about the selection of main *)

Selected == pc = "selected"

\* The URLs that were found: the one shifted off pdfUrls and the ones left in it.
Discovered ==
    ({selectedPdfUrls[1]} \ {Undefined}) \cup {pdfUrls[i] : i \in 1..Len(pdfUrls)}

\* C14: of a non-empty set of URLs found, main selects the first listed one
\* and, when further URLs remain, exactly one of the remaining ones; every
\* selected entry is a URL that was found (never undefined) and the two
\* selected URLs differ.
C14_TwoDistinctDiscovered ==
    Selected /\ Discovered # {} =>
        /\ Len(selectedPdfUrls) \in {1, 2}
        /\ Len(selectedPdfUrls) = 2 <=> Cardinality(Discovered) > 1
        /\ \A i \in 1..Len(selectedPdfUrls) :
               selectedPdfUrls[i] # Undefined /\ selectedPdfUrls[i] \in Discovered
        /\ Len(selectedPdfUrls) = 2 => selectedPdfUrls[1] # selectedPdfUrls[2]

\* A selection of two entries has been made.
C14_Witness == Selected /\ Len(selectedPdfUrls) = 2

---------------------------------------------------------------------------
(* SpecDoc: parsePdf applied to a document of several pages *)

InitDoc ==
    /\ pc = "loop"
    /\ pdf \in Documents
    /\ index = 0
    /\ elements = <<>>
    /\ applicationNumberElement = None /\ descriptionElement = None
    /\ receivedDateElement = None /\ addressElement = None
    /\ developmentApplications = <<>> /\ thrown = FALSE /\ returned = None
    /\ dir = None
    /\ GeomIdle /\ FindIdle /\ RestIdle

NextDoc == ParsePage \/ Return

SpecDoc == InitDoc /\ [][NextDoc]_vars

\* What parsePdf hands to its caller of the document that has the page alone.
OutcomeAlone(es) ==
    LET app == findClosestElement(es, DevAppNoLabel, Right)
        description == IF app # Undefined
                       THEN findClosestElement(es, app.text, Right)
                       ELSE Undefined
        received == findClosestElement(es, ReceivedLabel, Right)
        address == findClosestElement(es, PropertyDetailLabel, Down)
    IN  IF skipPage(app, address) \/ raisesTypeError(description)
        THEN <<>>
        ELSE <<developmentApplication(app, address, description, received)>>

RECURSIVE OutcomesInPageOrder(_, _)
OutcomesInPageOrder(document, i) ==
    IF i > Len(document) THEN <<>>
    ELSE OutcomeAlone(document[i]) \o OutcomesInPageOrder(document, i + 1)

\* C15: the outcome for a page (its record, or no record) is determined by the
\* texts of that page alone, whatever the other pages of the document hold,
\* and the records are emitted in page order: what parsePdf hands to its
\* caller is, page after page, what it hands over of each page alone.
C15_PageOutcomesIndependent ==
    Done => Emitted = OutcomesInPageOrder(pdf, 1)

\* A document of several pages has been parsed to its end and gave two records.
C15_Witness ==
    /\ pc = "returned"
    /\ Len(pdf) = MaxPages
    /\ Len(returned) >= 2
    /\ returned[1] # returned[2]

---------------------------------------------------------------------------
(* Further claims about the geometry and the resolver *)

\* The squared Euclidean distance of two points.
SquaredDistance(x1, y1, x2, y2) == (x2 - x1) * (x2 - x1) + (y2 - y1) * (y2 - y1)

\* The reference distance of section 4.1 of the specification, from A to B.
ReferenceDistance(A, B, d) ==
    IF d = Right
    THEN IF B.x < A.x + A.width - A.width \div 5
         THEN MAX_VALUE
         ELSE SquaredDistance(A.x + A.width, A.y + A.height \div 2,
                              B.x, B.y + B.height \div 2)
    ELSE IF B.y < A.y + A.height - A.height \div 2
         THEN MAX_VALUE
         ELSE SquaredDistance(A.x + A.width \div 2, A.y + A.height,
                              IF B.x + A.width \div 2 <= B.x + B.width
                              THEN B.x + A.width \div 2 ELSE B.x + B.width,
                              B.y)

\* C16: calculateDistance(A, B, dir) equals the reference of section 4.1 for
\* every pair of elements: to the right, the sentinel when
\* B.x < A.x + A.width - A.width/5 and otherwise the squared distance between
\* (A.x + A.width, A.y + A.height/2) and (B.x, B.y + B.height/2); down, the
\* sentinel when B.y < A.y + A.height - A.height/2 and otherwise the squared
\* distance between (A.x + A.width/2, A.y + A.height) and
\* (min(B.x + A.width/2, B.x + B.width), B.y).
C16_DistanceIsReference ==
    (Measured /\ dir \in {Right, Down})
        => distance = ReferenceDistance(element1, element2, dir)

\* A distance down that is not the sentinel, to an element narrower than half
\* the first one (the minimum is the right edge of the second element).
C16_Witness ==
    /\ Measured /\ dir = Down
    /\ distance < MAX_VALUE
    /\ element2.width < element1.width \div 2
    /\ element2.x # element1.x

\* C17: for a direction that is neither Right nor Down, calculateDistance is
\* the sentinel for every pair, isOverlap is false for every pair, and
\* findClosestElement returns undefined for every list and text.
C17_OtherDirectionTotal ==
    (Found /\ dir = Other)
        => /\ closest = Undefined
           /\ \A i, j \in 1..Len(elements) :
                  /\ calculateDistance(elements[i], elements[j], dir) = MAX_VALUE
                  /\ ~isOverlap(elements[i], elements[j], dir)

\* A resolver call in the other direction on a list that has the anchor and
\* elements on its line and in its column.
C17_Witness ==
    /\ Found /\ dir = Other
    /\ HasAnchor
    /\ \E i, j \in 1..Len(elements) :
          /\ isOverlap(elements[i], elements[j], Right)
          /\ isOverlap(elements[i], elements[j], Down)
    /\ closest = Undefined

---------------------------------------------------------------------------
(* Claims about the row scanner *)

\* The row the scanner has just handled.
LastRow == rows[scanned]

\* The first cell of the row, trimmed and in lower case, starts with "dev app no".
StartsWithDevAppNo(row) ==
    Len(row) >= 1 /\ startsWith(toLowerCase(trim(row[1])), DevAppNoPrefix)

\* The last application is the one the row opens and it is the current one: its
\* number is cell 1 without white space, its reason cell 2 trimmed, its
\* address and its received date are empty.
OpenedBy(row) ==
    /\ Len(developmentApplications) >= 1
    /\ currentApplication = Len(developmentApplications)
    /\ Len(row) >= 3
    /\ LET opened == developmentApplications[Len(developmentApplications)]
       IN  /\ opened.applicationNumber = removeWhiteSpace(trim(row[2]))
           /\ opened.reason = trim(row[3])
           /\ opened.address = <<>>
           /\ opened.receivedDate = <<>>

\* C20 (as stated): every row whose first cell, trimmed and lower-cased,
\* starts with "dev app no" opens a new application, whatever the state: there
\* are as many applications as such rows, and after such a row the last
\* application is the one it opens and is the current one.
C20_DevAppNoRowOpens ==
    (pc = "scan" /\ scanned >= 1) =>
        /\ Len(developmentApplications) =
               Cardinality({i \in 1..scanned : StartsWithDevAppNo(rows[i])})
        /\ StartsWithDevAppNo(LastRow) => OpenedBy(LastRow)

\* C20 (amended): every row of at least three cells whose first cell, trimmed
\* and lower-cased, starts with "dev app no" opens a new application, whatever
\* the state; a row of fewer cells opens none.
C20_DevAppNoRowOfThreeCellsOpens ==
    (pc = "scan" /\ scanned >= 1) =>
        /\ Len(developmentApplications) =
               Cardinality({i \in 1..scanned :
                               StartsWithDevAppNo(rows[i]) /\ Len(rows[i]) >= 3})
        /\ (StartsWithDevAppNo(LastRow) /\ Len(LastRow) >= 3) => OpenedBy(LastRow)

\* A row that starts with "dev app no" has opened an application while the
\* address of the application before it was being read, and a row of two
\* cells that starts with "dev app no" has opened none.
C20_Witness ==
    /\ pc = "scan" /\ scanned = MaxRows
    /\ StartsWithDevAppNo(LastRow) /\ OpenedBy(LastRow)
    /\ isAddress
    /\ Len(developmentApplications) >= 2
    /\ \E i \in 1..scanned : StartsWithDevAppNo(rows[i]) /\ Len(rows[i]) < 3

\* The scanner handles a row: the row it handles is rows[scanned'].
HandlesRow == pc = "scan" /\ scanned' = scanned + 1

\* The first cell of the row, trimmed and in lower case, starts with the prefix.
FirstCellStartsWith(row, prefix) ==
    Len(row) >= 1 /\ startsWith(toLowerCase(trim(row[1])), prefix)

\* The row is blank: it has no cell or a first cell of white space only.
BlankRow(row) == Len(row) = 0 \/ trim(row[1]) = <<>>

\* The row turns address capture off: a blank row, a row starting "fees", or a
\* row whose first cell starts with "LOT:", "ALT:", "A:", "U:", "PCE:" or "SEC:".
Terminates(row) ==
    \/ BlankRow(row)
    \/ FirstCellStartsWith(row, FeesPrefix)
    \/ \E prefix \in AllotmentPrefixes : startsWith(trim(row[1]), prefix)

\* The address with the text appended, joined by one space.
Joined(address, text) == IF address = <<>> THEN text ELSE address \o <<" ">> \o text

\* No application but, possibly, application k has another address after the row.
AddressesKept(k) ==
    \A j \in 1..Len(developmentApplications) :
        j # k => developmentApplications'[j].address = developmentApplications[j].address

\* C21 (as stated): with a record open, a row starting "property detail" turns
\* address capture on; while capture is on, each following row appends its
\* first cell (trimmed, joined by one space) to the address of the record,
\* until a blank row, a row starting "fees" or a row whose first cell starts
\* with "LOT:", "ALT:", "A:", "U:", "PCE:" or "SEC:" turns capture off; such a
\* row appends nothing, and no row after capture is off changes the address.
C21_AddressCapture ==
    [][HandlesRow =>
        LET row == rows[scanned']
            k == currentApplication
        IN  /\ (k # NoApplication /\ ~isAddress /\ FirstCellStartsWith(row, PropertyDetailPrefix))
                   => isAddress'
            /\ (k # NoApplication /\ isAddress /\ Terminates(row))
                   => /\ ~isAddress'
                      /\ developmentApplications'[k].address = developmentApplications[k].address
            /\ (k # NoApplication /\ isAddress /\ ~Terminates(row))
                   => developmentApplications'[k].address =
                          Joined(developmentApplications[k].address, trim(row[1]))
            /\ AddressesKept(IF isAddress THEN k ELSE NoApplication)]_vars

\* C21 (amended): as stated, but while capture is on a row starting
\* "property detail" that has two cells or more appends its second cell, and a
\* row that opens a new application appends nothing.
C21_AddressCaptureSecondCell ==
    [][HandlesRow =>
        LET row == rows[scanned']
            k == currentApplication
        IN  /\ (k # NoApplication /\ ~isAddress /\ FirstCellStartsWith(row, PropertyDetailPrefix))
                   => isAddress'
            /\ (k # NoApplication /\ isAddress /\ Terminates(row))
                   => /\ ~isAddress'
                      /\ developmentApplications'[k].address = developmentApplications[k].address
            /\ (k # NoApplication /\ isAddress /\ ~Terminates(row))
                   => developmentApplications'[k].address =
                          IF StartsWithDevAppNo(row) /\ Len(row) >= 3
                          THEN developmentApplications[k].address
                          ELSE IF FirstCellStartsWith(row, PropertyDetailPrefix) /\ Len(row) >= 2
                          THEN Joined(developmentApplications[k].address, trim(row[2]))
                          ELSE Joined(developmentApplications[k].address, trim(row[1]))
            /\ AddressesKept(IF isAddress THEN k ELSE NoApplication)]_vars

\* An address of two lines, the first one the second cell of a row starting
\* "property detail", has been read to its end.
C21_Witness ==
    /\ pc = "scan" /\ scanned = MaxRows
    /\ ~isAddress
    /\ Len(developmentApplications) = 1
    /\ Terminates(LastRow)
    /\ developmentApplications[1].address = T_Address
    /\ rows[MaxRows - 1] = <<PropertyDetailLabel, T_Address>>

\* The cells of the row that start, in any case, with "application rec'd
\* council" and have a next cell that is a valid date in the strict format
\* D/MM/YYYY.
LabelledDates(row) ==
    {i \in 1..Len(row) :
        /\ i < Len(row)
        /\ startsWith(toLowerCase(trim(row[i])), ReceivedPrefix)
        /\ isValid(momentStrict(trim(row[i + 1])))}

\* The date after the first such cell, as YYYY-MM-DD.
LabelledDate(row) ==
    format(momentStrict(trim(row[(CHOOSE i \in LabelledDates(row) :
                                     \A j \in LabelledDates(row) : i <= j) + 1])))

\* C22 (as stated): any cell of any row that starts with "application rec'd
\* council" and has a next cell triggers a strict D/MM/YYYY parse of that cell,
\* and a valid result is stored as the receivedDate of the most recently
\* opened application, also for a cell on the "dev app no" row itself and for
\* rows seen after the address capture of the record has ended.
C22_ReceivedDateOfAnyRow ==
    [][(HandlesRow /\ LabelledDates(rows[scanned']) # {} /\ Len(developmentApplications') >= 1)
          => developmentApplications'[Len(developmentApplications')].receivedDate =
                 LabelledDate(rows[scanned'])]_vars

\* C22 (amended): such a cell, at any place of the row, stores the valid date
\* as the receivedDate of the current application when the row neither opens
\* an application nor ends the address capture and the application has no
\* receivedDate yet; in every other case (a cell on the "dev app no" row
\* itself, on the row that ends the address capture, on a row seen with no
\* current application, or a receivedDate already set) no receivedDate changes.
C22_ReceivedDateOfCurrent ==
    [][(HandlesRow /\ LabelledDates(rows[scanned']) # {})
          => LET k == currentApplication
             IN  /\ \A j \in 1..Len(developmentApplications) :
                        developmentApplications'[j].receivedDate =
                            IF /\ j = k
                               /\ currentApplication' = k
                               /\ developmentApplications[j].receivedDate = <<>>
                            THEN LabelledDate(rows[scanned'])
                            ELSE developmentApplications[j].receivedDate
                 /\ Len(developmentApplications') > Len(developmentApplications)
                        => developmentApplications'[Len(developmentApplications')].receivedDate
                               = <<>>]_vars

\* The date of the second and third cell of an address row has been stored.
C22_Witness ==
    /\ pc = "scan" /\ scanned >= 2
    /\ LastRow = <<T_Address2, ReceivedLabel, T_Date5>>
    /\ currentApplication # NoApplication
    /\ developmentApplications[currentApplication].receivedDate = ISO_2020_02_29

\* C24: in every state the scanner reaches, the address-capture flag is set
\* only while an application is open (isAddress implies that the local
\* developmentApplication is not null).
C24_CaptureOnlyWhileOpen ==
    pc = "scan" => (isAddress => currentApplication # NoApplication)

\* The capture of an address is on for the second application of the rows.
C24_Witness ==
    /\ pc = "scan" /\ scanned = MaxRows
    /\ isAddress
    /\ currentApplication = 2

\* C25: every newly opened application starts with address capture off, also
\* when the capture of the application before it was still on when the
\* "dev app no" row arrived: after the row that opens it the flag is off, and
\* the row that follows the opening row appends nothing to its address.
C25_OpensWithCaptureOff ==
    (pc = "scan" /\ scanned >= 1) =>
        /\ (StartsWithDevAppNo(LastRow) /\ Len(LastRow) >= 3) => ~isAddress
        /\ ( /\ scanned >= 2
             /\ StartsWithDevAppNo(rows[scanned - 1]) /\ Len(rows[scanned - 1]) >= 3
             /\ ~(StartsWithDevAppNo(LastRow) /\ Len(LastRow) >= 3)
             /\ currentApplication # NoApplication )
               => developmentApplications[currentApplication].address = <<>>

\* An application has been opened while the capture of the address of the one
\* before it was on.
C25_Witness ==
    /\ pc = "scan" /\ scanned >= 3
    /\ StartsWithDevAppNo(LastRow) /\ Len(LastRow) >= 3
    /\ Len(developmentApplications) = 2
    /\ FirstCellStartsWith(rows[scanned - 1], PropertyDetailPrefix)

\* C26: the receivedDate of an application is written once: a receivedDate
\* that is not empty is changed by no later row, and a receivedDate is set
\* only of the current application, to the first valid date that follows an
\* "application rec'd council" cell of the row.
C26_ReceivedDateWrittenOnce ==
    [][HandlesRow =>
          \A j \in 1..Len(developmentApplications) :
              /\ developmentApplications[j].receivedDate # <<>>
                     => developmentApplications'[j].receivedDate =
                            developmentApplications[j].receivedDate
              /\ ( /\ developmentApplications[j].receivedDate = <<>>
                   /\ developmentApplications'[j].receivedDate # <<>> )
                     => /\ j = currentApplication
                        /\ LabelledDates(rows[scanned']) # {}
                        /\ developmentApplications'[j].receivedDate =
                               LabelledDate(rows[scanned'])]_vars

\* A row with another valid date has been handled for an application whose
\* receivedDate was set before.
C26_Witness ==
    /\ pc = "scan" /\ scanned >= 3
    /\ LastRow = <<T_Address2, ReceivedLabel, T_Date5>>
    /\ currentApplication # NoApplication
    /\ developmentApplications[currentApplication].receivedDate = ISO_2019_03_05

---------------------------------------------------------------------------
(* The anchor as a result of the resolver (SpecFind) *)

\* Every element of the list has a positive width and a positive height.
PositiveSizes ==
    \A i \in 1..Len(elements) : elements[i].width > 0 /\ elements[i].height > 0

\* The anchor is the only element of the list with its text and its box.
AnchorOccursOnce == \A i, j \in 1..Len(elements) :
    (elements[i] = Anchor /\ elements[j] = Anchor) => i = j

\* C27: findClosestElement never returns the anchor itself (the element
\* matched by the prefix of the label), for any list of elements of positive
\* widths and heights, any label and either direction.
C27_NeverReturnsAnchor ==
    (Found /\ dir \in {Right, Down} /\ HasAnchor /\ PositiveSizes /\ AnchorOccursOnce)
        => closest # Anchor

\* The anchor was returned from a list of elements of positive sizes that
\* holds another element too.
C27_Witness ==
    /\ Found /\ dir \in {Right, Down} /\ HasAnchor /\ PositiveSizes /\ AnchorOccursOnce
    /\ Len(elements) >= 2
    /\ closest = Anchor

---------------------------------------------------------------------------
(* Claims about the loop of main *)

\* main has ended.
Ended == pc \in {"complete", "rejected"}

\* The extraction of the document behind the URL fails: one of its pages raises.
Fails(url) == \E i \in 1..Len(documentOf[url]) : pageRaises(documentOf[url][i])

\* The rows of the table that come from the document behind the URL.
PersistedOf(url) == {stored \in database : stored.info_url = url}

\* The application numbers of the pages of the document that are not skipped.
NumbersOf(url) ==
    {removeWhiteSpace(trim(foundOnPage(documentOf[url][i]).applicationNumberElement.text)) :
        i \in {j \in 1..Len(documentOf[url]) :
                  ~skipPage(foundOnPage(documentOf[url][j]).applicationNumberElement,
                            foundOnPage(documentOf[url][j]).addressElement)}}

\* C23: when the extraction of one document fails, only the records of that
\* document are omitted: every other selected document is still processed and
\* its records are persisted, and no record of the failed document is
\* persisted.
C23_OtherDocumentsPersisted ==
    Ended =>
        \A i \in 1..Len(selectedPdfUrls) :
            LET url == selectedPdfUrls[i]
            IN  IF Fails(url)
                THEN PersistedOf(url) = {}
                ELSE \A number \in NumbersOf(url) :
                         \E stored \in database :
                             stored.council_reference = number

\* main has ended with two documents selected: the extraction of the first
\* fails and the second has an application.
C23_Witness ==
    /\ Ended
    /\ Len(selectedPdfUrls) = 2
    /\ Fails(selectedPdfUrls[1])
    /\ ~Fails(selectedPdfUrls[2])
    /\ NumbersOf(selectedPdfUrls[2]) # {}

=============================================================================
